---- MODULE Spec2Model ----
(***************************************************************************)
(* Task-tracking REST API (express + mongodb + jsonwebtoken + bcrypt).     *)
(*                                                                         *)
(* The state is the process-wide store handle, the three collections      *)
(* (users, Tasks, Comments), the wall clock, the requests whose handler   *)
(* is suspended at an await, and the last response sent.                   *)
(*                                                                         *)
(* One action is one atomic piece of a handler: from the arrival of the   *)
(* request (or the completion of an await) up to the next store           *)
(* operation, that store operation included.  The arrival of a request    *)
(* and the synchronous code before the handler's first store operation    *)
(* touch no shared state, so they are part of the action of that first    *)
(* store operation.  A handler that reads the clock before its store      *)
(* operation (POST and PUT) is split at that await.                        *)
(*                                                                         *)
(* The store driver is taken to be reliable once connected: a store       *)
(* operation of a connected handle does not throw.                         *)
(***************************************************************************)
EXTENDS Integers, Sequences, FiniteSets, TLC

VARIABLES
    boot,           \* server.js: "connecting" | "listening" | "failed"
    db,             \* database.js `let db`: "undefined" | "CSE341pt2"
    now,            \* the wall clock, in clock units
    users,          \* collection 'users': a set of documents
    nextUserId,     \* the next _id insertOne gives a user
    tasks,          \* collection 'Tasks': _id -> document
    nextTaskId,     \* the next _id insertOne gives a task
    comments,       \* collection 'Comments': _id -> document
    nextCommentId,  \* the next _id insertOne gives a comment
    inflight,       \* slot -> the register handler suspended at an await, or Idle
    pending,        \* slot -> the task or comment handler suspended at its
                    \* store operation, or Idle
    deleted,        \* the ids whose DELETE was answered 200, per collection
    resp            \* the last response sent, with the request it answers

vars == <<boot, db, now, users, nextUserId, tasks, nextTaskId, comments,
          nextCommentId, inflight, pending, deleted, resp>>

-----------------------------------------------------------------------------
(* Bounds of the model. *)

MaxTime == 1
MaxUsers == 2
MaxTasks == 1
MaxComments == 1
MaxInflight == 2
MaxPending == 1

(* jwt.sign(..., { expiresIn: '1h' }): the number of clock values a token
   lives through, scaled down to the clock of the model. *)
ExpiresIn == 1

-----------------------------------------------------------------------------
(* Values *)

Slots == 1..MaxInflight
PendingSlots == 1..MaxPending
Idle == [kind |-> "idle"]
NoRequest == [authorization |-> <<>>, id |-> <<>>, body |-> <<>>]
NoResponse == [route |-> "none", status |-> 0, message |-> "",
               req |-> NoRequest, result |-> <<>>]

JWT_SECRET == "your_jwt_secret"
GATE_SECRET == "your_secret_key"

Usernames == {"alice", "bob"}
Passwords == {"pw1", "pw2"}
Salts == {"salt1"}

(* A JSON body is a function from the names of the fields it carries. *)
EmptyBody == [f \in {} |-> ""]
Without(body, f) == [g \in DOMAIN body \ {f} |-> body[g]]
Has(body, f) == f \in DOMAIN body
(* !x of a destructured string field: undefined and '' are falsy. *)
Falsy(body, f) == ~Has(body, f) \/ body[f] = ""

-----------------------------------------------------------------------------
(* jsonwebtoken *)

(* A string that travels in a header is a sequence of atoms: words, single
   spaces, and the compact form of a JSON web token, which holds no space
   and is one atom. *)
Space == [ch |-> " "]
Bearer == [word |-> "Bearer"]

(* The HS256 signature of a payload under a key. *)
HS256(payload, key) == <<payload, key>>

(* jwt.sign(payload, secret, {expiresIn}) at clock value t. *)
JwtSign(payload, secret, expiresIn, t) ==
    LET full == [id |-> payload.id, iat |-> t, exp |-> t + expiresIn]
    IN  <<[payload |-> full, sig |-> HS256(full, secret)]>>

(* jwt.sign(payload, secret) with no expiresIn: no exp claim. *)
JwtSignNoExp(payload, secret, t) ==
    LET full == [id |-> payload.id, iat |-> t]
    IN  <<[payload |-> full, sig |-> HS256(full, secret)]>>

(* A token whose signature was altered after issuance. *)
TamperSignature(token) ==
    <<[token[1] EXCEPT !.sig = <<token[1].payload, "tampered">>]>>

(* The payload a well-formed token carries. *)
JwtDecode(token) == token[1].payload

(* jwt.verify(token, secret, cb) at clock value t: err for a string that is
   not a token, for a signature that is not the payload's under secret, and
   for an exp claim that is reached. *)
JwtVerifyErr(token, secret, t) ==
    IF Len(token) # 1 \/ "sig" \notin DOMAIN token[1] THEN "jwt malformed"
    ELSE IF token[1].sig # HS256(JwtDecode(token), secret) THEN "invalid signature"
    ELSE IF "exp" \in DOMAIN JwtDecode(token) /\ t >= JwtDecode(token).exp
         THEN "jwt expired"
         ELSE "none"

-----------------------------------------------------------------------------
(* bcrypt *)

(* bcrypt.hash(password, 10) with the salt it generated. *)
BcryptHash(password, salt) == [salt |-> salt, digest |-> <<salt, password>>]

(* bcrypt.compare(inputPassword, hash). *)
BcryptCompare(inputPassword, hash) ==
    hash.digest = <<hash.salt, inputPassword>>

-----------------------------------------------------------------------------
(* middleware/authMiddleware.js *)

(* req.headers['authorization'] of a request without the header (and of one
   whose header is the empty string: neither yields a token). *)
NoHeader == <<>>

(* String.prototype.split(' '): the pieces between the spaces, the empty
   ones included. *)
RECURSIVE Split(_)
Split(str) ==
    IF \A i \in 1..Len(str) : str[i] # Space THEN <<str>>
    ELSE LET i == CHOOSE k \in 1..Len(str) :
                    str[k] = Space /\ \A j \in 1..(k - 1) : str[j] # Space
         IN  <<SubSeq(str, 1, i - 1)>> \o Split(SubSeq(str, i + 1, Len(str)))

(* req.headers['authorization']?.split(' ')[1]: the second piece of the
   header; undefined and '' are both the empty string here, and both are
   falsy. *)
HeaderToken(authorization) ==
    LET parts == Split(authorization)
    IN  IF authorization = NoHeader \/ Len(parts) < 2 THEN <<>> ELSE parts[2]

(* authenticateToken with a revocation on logout: no token passes while the
   last response sent is that of POST /auth/logout. *)
AuthGateRevokedByLogout(authorization, t) ==
    LET token == HeaderToken(authorization)
    IN  IF token = <<>>
        THEN [pass |-> FALSE, status |-> 401, message |-> "Access token required"]
        ELSE IF \/ resp.route = "POST /auth/logout"
                \/ JwtVerifyErr(token, GATE_SECRET, t) # "none"
             THEN [pass |-> FALSE, status |-> 403, message |-> "Invalid token"]
             ELSE [pass |-> TRUE, status |-> 0, message |-> "",
                   user |-> JwtDecode(token)]

(* authenticateToken without jwt.verify: any token passes. *)
AuthGateNoVerify(authorization, t) ==
    LET token == HeaderToken(authorization)
    IN  IF token = <<>>
        THEN [pass |-> FALSE, status |-> 401, message |-> "Access token required"]
        ELSE [pass |-> TRUE, status |-> 0, message |-> "",
              user |-> JwtDecode(token)]

(* authenticateToken: the gate's verdict on a request at clock value t. *)
AuthGate(authorization, t) ==
    LET token == HeaderToken(authorization)
    IN  IF token = <<>>
        THEN [pass |-> FALSE, status |-> 401, message |-> "Access token required"]
        ELSE IF JwtVerifyErr(token, GATE_SECRET, t) # "none"
             THEN [pass |-> FALSE, status |-> 403, message |-> "Invalid token"]
             ELSE [pass |-> TRUE, status |-> 0, message |-> "",
                   user |-> JwtDecode(token)]

-----------------------------------------------------------------------------
(* What a handler does with res and with its own continuation. *)

(* res.status(status).json(...) answering req. *)
Response(route, status, message, req, result) ==
    [route |-> route, status |-> status, message |-> message,
     req |-> req, result |-> result]

(* mongodb/database.js getDB(): throws while db is unset. *)
GetDBThrows == db = "undefined"

Inflight(kind) == {s \in Slots : inflight[s].kind = kind}
Pending(kind) == {s \in PendingSlots : pending[s].kind = kind}

-----------------------------------------------------------------------------
(* server.js: connectDB().then(listen).catch(log) *)

ConnectDBSucceeds ==
    /\ boot = "connecting"
    /\ db' = "CSE341pt2"
    /\ boot' = "listening"
    /\ UNCHANGED <<now, users, nextUserId, tasks, nextTaskId, comments,
                   nextCommentId, inflight, pending, deleted, resp>>

(* connectDB() rejects and the server listens all the same. *)
ConnectDBFailsAndListens ==
    /\ boot = "connecting"
    /\ boot' = "listening"
    /\ UNCHANGED <<db, now, users, nextUserId, tasks, nextTaskId, comments,
                   nextCommentId, inflight, pending, deleted, resp>>

ConnectDBFails ==
    /\ boot = "connecting"
    /\ boot' = "failed"
    /\ UNCHANGED <<db, now, users, nextUserId, tasks, nextTaskId, comments,
                   nextCommentId, inflight, pending, deleted, resp>>

(* The wall clock advances. *)
Tick ==
    /\ now < MaxTime
    /\ now' = now + 1
    /\ UNCHANGED <<boot, db, users, nextUserId, tasks, nextTaskId, comments,
                   nextCommentId, inflight, pending, deleted, resp>>

-----------------------------------------------------------------------------
(* mongodb/user.js *)

(* users.findOne({ username }): the first match in insertion order. *)
FindUserByUsername(username) ==
    LET found == {u \in users : u.username = username}
    IN  IF found = {} THEN {}
        ELSE {CHOOSE u \in found : \A v \in found : u._id <= v._id}

-----------------------------------------------------------------------------
(* routes/auth.js *)

AuthBodies ==
    [username : Usernames, password : Passwords] \cup [username : Usernames]

AuthRequest(body) == [authorization |-> NoHeader, id |-> <<>>, body |-> body]

(* POST /auth/register without the handler's own lookup. *)
RegisterFindUserNoLookup(s, body) ==
    /\ boot = "listening"
    /\ inflight[s] = Idle
    /\ Cardinality(users) + Cardinality(Inflight("register")) < MaxUsers
    /\ inflight' = [inflight EXCEPT ![s] =
          [kind |-> "register", pc |-> "createUser", req |-> AuthRequest(body)]]
    /\ UNCHANGED <<boot, db, now, users, nextUserId, tasks, nextTaskId,
                   comments, nextCommentId, pending, deleted, resp>>

(* POST /auth/register, up to and including findUserByUsername(username). *)
RegisterFindUser(s, body) ==
    LET req == AuthRequest(body)
        route == "POST /auth/register"
    IN  /\ boot = "listening"
        /\ inflight[s] = Idle
        /\ Cardinality(users) + Cardinality(Inflight("register")) < MaxUsers
        /\ IF GetDBThrows
           THEN /\ resp' = Response(route, 500, "Failed to register user", req, <<>>)
                /\ UNCHANGED inflight
           ELSE IF FindUserByUsername(body.username) # {}
           THEN /\ resp' = Response(route, 400, "Username already exists", req, <<>>)
                /\ UNCHANGED inflight
           ELSE /\ inflight' = [inflight EXCEPT ![s] =
                        [kind |-> "register", pc |-> "createUser", req |-> req]]
                /\ UNCHANGED resp
        /\ UNCHANGED <<boot, db, now, users, nextUserId, tasks, nextTaskId,
                       comments, nextCommentId, pending, deleted>>

(* createUser: its own findOne and, when that finds nothing, bcrypt.hash. *)
RegisterCreateUser(s) ==
    LET r == inflight[s]
        route == "POST /auth/register"
    IN  /\ r.kind = "register" /\ r.pc = "createUser"
        /\ IF FindUserByUsername(r.req.body.username) # {}
              \/ ~Has(r.req.body, "password")
           THEN \* createUser throws: the handler's catch answers 500
                /\ resp' = Response(route, 500, "Failed to register user", r.req, <<>>)
                /\ inflight' = [inflight EXCEPT ![s] = Idle]
           ELSE \E salt \in Salts :
                /\ inflight' = [inflight EXCEPT ![s] =
                        [kind |-> "register", pc |-> "insertOne", req |-> r.req,
                         hashedPassword |-> BcryptHash(r.req.body.password, salt)]]
                /\ UNCHANGED resp
        /\ UNCHANGED <<boot, db, now, users, nextUserId, tasks, nextTaskId,
                       comments, nextCommentId, pending, deleted>>

(* createUser: users.insertOne, and the handler's 201. *)
RegisterInsertOne(s) ==
    LET r == inflight[s]
    IN  /\ r.kind = "register" /\ r.pc = "insertOne"
        /\ users' = users \cup {[_id |-> nextUserId,
                                  username |-> r.req.body.username,
                                  password |-> r.hashedPassword]}
        /\ nextUserId' = nextUserId + 1
        /\ resp' = Response("POST /auth/register", 201,
                            "User registered successfully", r.req, nextUserId)
        /\ inflight' = [inflight EXCEPT ![s] = Idle]
        /\ UNCHANGED <<boot, db, now, tasks, nextTaskId, comments,
                       nextCommentId, pending, deleted>>

(* POST /auth/login.  The users collection has no update and no delete, so
   the handler's awaits are taken in one step. *)
Login(body) ==
    LET req == AuthRequest(body)
        route == "POST /auth/login"
        found == FindUserByUsername(body.username)
        user == CHOOSE u \in found : TRUE
    IN  /\ boot = "listening"
        /\ resp' =
             IF GetDBThrows
             THEN Response(route, 500, "Failed to log in user", req, <<>>)
             ELSE IF found = {}
             THEN Response(route, 401, "Invalid credentials", req, <<>>)
             ELSE IF ~Has(body, "password")
             THEN \* bcrypt.compare(undefined, hash) rejects
                  Response(route, 500, "Failed to log in user", req, <<>>)
             ELSE IF ~BcryptCompare(body.password, user.password)
             THEN Response(route, 401, "Invalid credentials", req, <<>>)
             ELSE Response(route, 200, "", req,
                           JwtSign([id |-> user._id], JWT_SECRET, ExpiresIn, now))
        /\ UNCHANGED <<boot, db, now, users, nextUserId, tasks, nextTaskId,
                       comments, nextCommentId, inflight, pending, deleted>>

(* POST /auth/logout *)
Logout ==
    /\ boot = "listening"
    /\ resp' = Response("POST /auth/logout", 200,
                        "User logged out successfully", AuthRequest(EmptyBody), <<>>)
    /\ UNCHANGED <<boot, db, now, users, nextUserId, tasks, nextTaskId,
                   comments, nextCommentId, inflight, pending, deleted>>

-----------------------------------------------------------------------------
(* mongodb ObjectId *)

(* The value of each hexadecimal digit; a character outside is no digit. *)
HexDigit ==
    [c \in {"0", "1", "2", "3", "4", "5", "6", "7", "8", "9"} |->
        CASE c = "0" -> 0 [] c = "1" -> 1 [] c = "2" -> 2 [] c = "3" -> 3
          [] c = "4" -> 4 [] c = "5" -> 5 [] c = "6" -> 6 [] c = "7" -> 7
          [] c = "8" -> 8 [] c = "9" -> 9] @@
    [c \in {"a", "b", "c", "d", "e", "f"} |->
        CASE c = "a" -> 10 [] c = "b" -> 11 [] c = "c" -> 12
          [] c = "d" -> 13 [] c = "e" -> 14 [] c = "f" -> 15] @@
    [c \in {"A", "B", "C", "D", "E", "F"} |->
        CASE c = "A" -> 10 [] c = "B" -> 11 [] c = "C" -> 12
          [] c = "D" -> 13 [] c = "E" -> 14 [] c = "F" -> 15]

(* The length of the hexadecimal form of an ObjectId. *)
ObjectIdHexLength == 24

(* ObjectId.isValid(id) of a string: 24 hexadecimal digits.  (What it says
   of a 12-character string depends on the driver's version; the requests
   of this model carry none.) *)
ObjectIdIsValid(id) ==
    /\ Len(id) = ObjectIdHexLength
    /\ \A i \in 1..Len(id) : id[i] \in DOMAIN HexDigit

(* new ObjectId(id) of a valid string: the number its digits write. *)
RECURSIVE NewObjectId(_)
NewObjectId(id) ==
    IF id = <<>> THEN 0
    ELSE 16 * NewObjectId(SubSeq(id, 1, Len(id) - 1)) + HexDigit[id[Len(id)]]

(* The first _id insertOne generates in a collection; the ones after it
   count up, so no _id is generated twice. *)
FirstObjectId == 10

(* The string of 24 characters that ends in c after zeros. *)
IdString(c) == [i \in 1..ObjectIdHexLength |-> IF i = ObjectIdHexLength THEN c ELSE "0"]

NotAnId == <<"n", "o", "t", "-", "a", "n", "-", "i", "d">>
ValidIdParams == {IdString("a"), IdString("A"), IdString("b")}
InvalidIdParams == {NotAnId, IdString("g")}

(* new Date(string): days since the epoch, or Invalid Date. *)
InvalidDate == -1
NewDate(string) ==
    CASE string = "2024-12-30" -> 20087
      [] string = "2024-12-31" -> 20088
      [] string = "2024-12-31T00:00:00.000Z" -> 20088
      [] OTHER -> InvalidDate

(* collection.find().toArray(): the documents in insertion order. *)
RECURSIVE ToArray(_)
ToArray(coll) ==
    IF coll = {} THEN <<>>
    ELSE LET first == CHOOSE d \in coll : \A e \in coll : d._id <= e._id
         IN  <<first>> \o ToArray(coll \ {first})

(* collection.findOne({ _id }) *)
FindOne(coll, id) == {d \in coll : d._id = id}

-----------------------------------------------------------------------------
(* The requests a client sends to the gated routes. *)

GoodToken == JwtSignNoExp([id |-> 1], GATE_SECRET, 0)
ShortToken == JwtSign([id |-> 1], GATE_SECRET, ExpiresIn, 0)
ForgedToken == TamperSignature(GoodToken)

(* "Bearer <token>" *)
BearerHeader(token) == <<Bearer, Space>> \o token

GoodAuth == BearerHeader(GoodToken)
(* No header; "Bearer" alone; a forged token; and a good token after two
   spaces. *)
BadAuths ==
    {NoHeader, <<Bearer>>, BearerHeader(ForgedToken),
     <<Bearer, Space, Space>> \o GoodToken}

(* The tokens POST /auth/login can have issued so far: one per user and per
   clock value up to now. *)
IssuedTokens ==
    {JwtSign([id |-> u._id], JWT_SECRET, ExpiresIn, t) : u \in users, t \in 0..now}

(* The headers a client puts on a list request: the fixed ones, the tokens
   it can hold from earlier logins, and the token the last login returned,
   as it is and with its signature altered. *)
ListAuths ==
    {GoodAuth, BearerHeader(ShortToken)} \cup BadAuths \cup
    {BearerHeader(token) : token \in IssuedTokens} \cup
    (IF resp.route = "POST /auth/login" /\ resp.status = 200
     THEN {BearerHeader(resp.result), BearerHeader(TamperSignature(resp.result))}
     ELSE {})

Request(authorization, id, body) ==
    [authorization |-> authorization, id |-> id, body |-> body]

ListRequests == {Request(a, <<>>, EmptyBody) : a \in ListAuths}
IdRequests ==
    {Request(GoodAuth, id, EmptyBody) : id \in ValidIdParams \cup InvalidIdParams}
    \cup {Request(a, IdString("a"), EmptyBody) : a \in BadAuths}

TaskBodyA ==
    [title |-> "t1", description |-> "d1", status |-> "pending",
     assignedTo |-> "ann", dueDate |-> "2024-12-30", priority |-> "low",
     createdBy |-> "ann", tags |-> <<"x">>, comments |-> <<"c">>]
TaskBodyB ==
    [title |-> "t2", description |-> "d2", status |-> "completed",
     assignedTo |-> "ben", dueDate |-> "2024-12-31T00:00:00.000Z",
     priority |-> "high", createdBy |-> "ben"]

TaskPostRequired ==
    {"title", "description", "status", "assignedTo", "dueDate", "priority", "createdBy"}
TaskPutRequired ==
    {"title", "description", "status", "assignedTo", "dueDate", "priority"}

TaskPostRequests ==
    {Request(GoodAuth, <<>>, b) :
        b \in {TaskBodyA, TaskBodyB} \cup {Without(TaskBodyA, f) : f \in TaskPostRequired}}
    \cup {Request(a, <<>>, TaskBodyA) : a \in BadAuths}
TaskPutRequests ==
    {Request(GoodAuth, id, TaskBodyB) : id \in {IdString("a"), IdString("b")}}
    \cup {Request(GoodAuth, IdString("a"), Without(TaskBodyB, f)) : f \in TaskPostRequired}
    \cup {Request(GoodAuth, id, b) :
            id \in InvalidIdParams, b \in {TaskBodyB, Without(TaskBodyB, "title")}}
    \cup {Request(a, IdString("a"), TaskBodyB) : a \in BadAuths}

CommentBodyA == [taskId |-> "00000000000000000000000a", content |-> "c1"]
CommentBodyB == [taskId |-> "no-such-task", content |-> "c2"]
CommentRequired == {"taskId", "content"}

CommentPostRequests ==
    {Request(GoodAuth, <<>>, b) :
        b \in {CommentBodyA} \cup {Without(CommentBodyA, f) : f \in CommentRequired}}
    \cup {Request(a, <<>>, CommentBodyA) : a \in BadAuths}
CommentPutRequests ==
    {Request(GoodAuth, id, CommentBodyB) : id \in {IdString("a"), IdString("b")}}
    \cup {Request(GoodAuth, IdString("a"), Without(CommentBodyB, f)) : f \in CommentRequired}
    \cup {Request(GoodAuth, id, b) :
            id \in InvalidIdParams, b \in {CommentBodyB, Without(CommentBodyB, "content")}}
    \cup {Request(a, IdString("a"), CommentBodyB) : a \in BadAuths}

-----------------------------------------------------------------------------
(* What the task and comment handlers share. *)

(* insertOne gives the document its _id. *)
WithId(doc, id) ==
    [f \in DOMAIN doc \cup {"_id"} |-> IF f = "_id" THEN id ELSE doc[f]]

(* updateOne's $set on a document. *)
ApplySet(doc, set) ==
    [f \in DOMAIN doc \cup DOMAIN set |-> IF f \in DOMAIN set THEN set[f] ELSE doc[f]]

(* The fields a handler's required-field test finds falsy. *)
MissingFields(body, required) == {f \in required : Falsy(body, f)}

(* The clock values a second read can return after a read of now. *)
NextReads == {t \in {now, now + 1} : t <= MaxTime}

-----------------------------------------------------------------------------
(* routes/tasks.js *)

(* GET /tasks *)
TaskList(req) ==
    LET route == "GET /tasks"
        gate == AuthGate(req.authorization, now)
    IN  /\ boot = "listening"
        /\ resp' =
             IF ~gate.pass THEN Response(route, gate.status, gate.message, req, <<>>)
             ELSE IF GetDBThrows
             THEN Response(route, 500, "Failed to retrieve tasks", req, <<>>)
             ELSE Response(route, 200, "", req, ToArray(tasks))
        /\ UNCHANGED <<boot, db, now, users, nextUserId, tasks, nextTaskId,
                       comments, nextCommentId, inflight, pending, deleted>>

(* GET /tasks/:id *)
TaskGet(req) ==
    LET route == "GET /tasks/:id"
        gate == AuthGate(req.authorization, now)
        task == FindOne(tasks, NewObjectId(req.id))
    IN  /\ boot = "listening"
        /\ resp' =
             IF ~gate.pass THEN Response(route, gate.status, gate.message, req, <<>>)
             ELSE IF ~ObjectIdIsValid(req.id)
             THEN Response(route, 400, "Invalid task ID format", req, <<>>)
             ELSE IF GetDBThrows
             THEN Response(route, 500, "Failed to retrieve task", req, <<>>)
             ELSE IF task = {}
             THEN Response(route, 404, "Task not found", req, <<>>)
             ELSE Response(route, 200, "", req, CHOOSE d \in task : TRUE)
        /\ UNCHANGED <<boot, db, now, users, nextUserId, tasks, nextTaskId,
                       comments, nextCommentId, inflight, pending, deleted>>

(* POST /tasks: the newTask the handler builds, reading the clock at
   createdAt and again at updatedAt. *)
NewTask(body, createdAt, updatedAt) ==
    [title |-> body.title, description |-> body.description,
     status |-> body.status, assignedTo |-> body.assignedTo,
     dueDate |-> NewDate(body.dueDate), priority |-> body.priority,
     tags |-> IF Has(body, "tags") THEN body.tags ELSE <<>>,
     comments |-> IF Has(body, "comments") THEN body.comments ELSE <<>>,
     createdBy |-> body.createdBy,
     createdAt |-> createdAt, updatedAt |-> updatedAt]

(* POST /tasks, up to the await of insertOne. *)
TaskPost(p, req) ==
    LET route == "POST /tasks"
        gate == AuthGate(req.authorization, now)
    IN  /\ boot = "listening"
        /\ pending[p] = Idle
        /\ IF ~gate.pass
           THEN /\ resp' = Response(route, gate.status, gate.message, req, <<>>)
                /\ UNCHANGED <<pending, now>>
           ELSE IF MissingFields(req.body, TaskPostRequired) # {}
           THEN /\ resp' = Response(route, 400, "All fields are required", req, <<>>)
                /\ UNCHANGED <<pending, now>>
           ELSE IF GetDBThrows
           THEN /\ resp' = Response(route, 500, "Failed to create task", req, <<>>)
                /\ UNCHANGED <<pending, now>>
           ELSE /\ (nextTaskId - FirstObjectId)
                     + Cardinality(Pending("insertTask")) < MaxTasks
                /\ \E updatedAt \in NextReads :
                     /\ pending' = [pending EXCEPT ![p] =
                           [kind |-> "insertTask", req |-> req,
                            doc |-> NewTask(req.body, now, updatedAt)]]
                     /\ now' = updatedAt
                /\ UNCHANGED resp
        /\ UNCHANGED <<boot, db, users, nextUserId, tasks, nextTaskId,
                       comments, nextCommentId, inflight, deleted>>

(* POST /tasks: insertOne and the 201. *)
TaskInsertOne(p) ==
    LET r == pending[p]
    IN  /\ r.kind = "insertTask"
        /\ tasks' = tasks \cup {WithId(r.doc, nextTaskId)}
        /\ nextTaskId' = nextTaskId + 1
        /\ resp' = Response("POST /tasks", 201, "Task created successfully",
                            r.req, nextTaskId)
        /\ pending' = [pending EXCEPT ![p] = Idle]
        /\ UNCHANGED <<boot, db, now, users, nextUserId, comments,
                       nextCommentId, inflight, deleted>>

(* A $set that stamps createdAt as well. *)
UpdatedTaskStampsCreatedAt(body, updatedAt) ==
    [title |-> body.title, description |-> body.description,
     status |-> body.status, assignedTo |-> body.assignedTo,
     dueDate |-> NewDate(body.dueDate), priority |-> body.priority,
     createdAt |-> updatedAt, updatedAt |-> updatedAt]

(* PUT /tasks/:id: the $set the handler builds. *)
UpdatedTask(body, updatedAt) ==
    [title |-> body.title, description |-> body.description,
     status |-> body.status, assignedTo |-> body.assignedTo,
     dueDate |-> NewDate(body.dueDate), priority |-> body.priority,
     updatedAt |-> updatedAt]

(* PUT /tasks/:id with the required-field test ahead of the identifier test. *)
TaskPutFieldsFirst(p, req) ==
    LET route == "PUT /tasks/:id"
        gate == AuthGate(req.authorization, now)
    IN  /\ boot = "listening"
        /\ pending[p] = Idle
        /\ IF ~gate.pass
           THEN /\ resp' = Response(route, gate.status, gate.message, req, <<>>)
                /\ UNCHANGED pending
           ELSE IF MissingFields(req.body, TaskPutRequired) # {}
           THEN /\ resp' = Response(route, 400, "All fields are required", req, <<>>)
                /\ UNCHANGED pending
           ELSE IF ~ObjectIdIsValid(req.id)
           THEN /\ resp' = Response(route, 400, "Invalid task ID format", req, <<>>)
                /\ UNCHANGED pending
           ELSE /\ pending' = [pending EXCEPT ![p] =
                      [kind |-> "updateTask", req |-> req,
                       id |-> NewObjectId(req.id),
                       set |-> [title |-> req.body.title,
                                description |-> req.body.description,
                                status |-> req.body.status,
                                assignedTo |-> req.body.assignedTo,
                                dueDate |-> NewDate(req.body.dueDate),
                                priority |-> req.body.priority,
                                updatedAt |-> now]]]
                /\ UNCHANGED resp
        /\ UNCHANGED <<boot, db, now, users, nextUserId, tasks, nextTaskId,
                       comments, nextCommentId, inflight, deleted>>

(* PUT /tasks/:id, up to the await of updateOne. *)
TaskPut(p, req) ==
    LET route == "PUT /tasks/:id"
        gate == AuthGate(req.authorization, now)
    IN  /\ boot = "listening"
        /\ pending[p] = Idle
        /\ IF ~gate.pass
           THEN /\ resp' = Response(route, gate.status, gate.message, req, <<>>)
                /\ UNCHANGED pending
           ELSE IF ~ObjectIdIsValid(req.id)
           THEN /\ resp' = Response(route, 400, "Invalid task ID format", req, <<>>)
                /\ UNCHANGED pending
           ELSE IF MissingFields(req.body, TaskPutRequired) # {}
           THEN /\ resp' = Response(route, 400, "All fields are required", req, <<>>)
                /\ UNCHANGED pending
           ELSE IF GetDBThrows
           THEN /\ resp' = Response(route, 500, "Failed to update task", req, <<>>)
                /\ UNCHANGED pending
           ELSE /\ pending' = [pending EXCEPT ![p] =
                      [kind |-> "updateTask", req |-> req,
                       id |-> NewObjectId(req.id),
                       set |-> UpdatedTask(req.body, now)]]
                /\ UNCHANGED resp
        /\ UNCHANGED <<boot, db, now, users, nextUserId, tasks, nextTaskId,
                       comments, nextCommentId, inflight, deleted>>

(* updateOne with upsert: a $set that matches nothing inserts. *)
TaskUpdateOneUpsert(p) ==
    LET r == pending[p]
        route == "PUT /tasks/:id"
        matched == FindOne(tasks, r.id)
    IN  /\ r.kind = "updateTask"
        /\ tasks' = IF matched = {} THEN tasks \cup {WithId(r.set, r.id)}
                    ELSE (tasks \ matched) \cup {ApplySet(d, r.set) : d \in matched}
        /\ resp' = IF matched = {}
                   THEN Response(route, 404, "Task not found", r.req, <<>>)
                   ELSE Response(route, 200, "Task updated successfully", r.req, <<>>)
        /\ pending' = [pending EXCEPT ![p] = Idle]
        /\ UNCHANGED <<boot, db, now, users, nextUserId, nextTaskId, comments,
                       nextCommentId, inflight, deleted>>

(* PUT /tasks/:id: updateOne and the answer by matchedCount. *)
TaskUpdateOne(p) ==
    LET r == pending[p]
        route == "PUT /tasks/:id"
        matched == FindOne(tasks, r.id)
    IN  /\ r.kind = "updateTask"
        /\ tasks' = (tasks \ matched) \cup {ApplySet(d, r.set) : d \in matched}
        /\ resp' = IF matched = {}
                   THEN Response(route, 404, "Task not found", r.req, <<>>)
                   ELSE Response(route, 200, "Task updated successfully", r.req, <<>>)
        /\ pending' = [pending EXCEPT ![p] = Idle]
        /\ UNCHANGED <<boot, db, now, users, nextUserId, nextTaskId, comments,
                       nextCommentId, inflight, deleted>>

(* DELETE /tasks/:id that answers by what it found and removes nothing. *)
TaskDeleteKeepsRecord(req) ==
    LET route == "DELETE /tasks/:id"
        gate == AuthGate(req.authorization, now)
        found == FindOne(tasks, NewObjectId(req.id))
    IN  /\ boot = "listening"
        /\ gate.pass /\ ObjectIdIsValid(req.id)
        /\ IF found = {}
           THEN /\ resp' = Response(route, 404, "Task not found", req, <<>>)
                /\ UNCHANGED deleted
           ELSE /\ deleted' = [deleted EXCEPT !.tasks = @ \cup {NewObjectId(req.id)}]
                /\ resp' = Response(route, 200, "Task deleted successfully", req, <<>>)
        /\ UNCHANGED <<boot, db, now, users, nextUserId, tasks, nextTaskId, comments,
                       nextCommentId, inflight, pending>>

(* DELETE /tasks/:id *)
TaskDelete(req) ==
    LET route == "DELETE /tasks/:id"
        gate == AuthGate(req.authorization, now)
        found == FindOne(tasks, NewObjectId(req.id))
    IN  /\ boot = "listening"
        /\ IF ~gate.pass
           THEN /\ resp' = Response(route, gate.status, gate.message, req, <<>>)
                /\ UNCHANGED <<tasks, deleted>>
           ELSE IF ~ObjectIdIsValid(req.id)
           THEN /\ resp' = Response(route, 400, "Invalid task ID format", req, <<>>)
                /\ UNCHANGED <<tasks, deleted>>
           ELSE IF GetDBThrows
           THEN /\ resp' = Response(route, 500, "Failed to delete task", req, <<>>)
                /\ UNCHANGED <<tasks, deleted>>
           ELSE IF found = {}
           THEN /\ resp' = Response(route, 404, "Task not found", req, <<>>)
                /\ UNCHANGED <<tasks, deleted>>
           ELSE /\ tasks' = tasks \ found
                /\ deleted' = [deleted EXCEPT !.tasks = @ \cup {NewObjectId(req.id)}]
                /\ resp' = Response(route, 200, "Task deleted successfully", req, <<>>)
        /\ UNCHANGED <<boot, db, now, users, nextUserId, nextTaskId, comments,
                       nextCommentId, inflight, pending>>

-----------------------------------------------------------------------------
(* routes/comments.js *)

(* GET /comments *)
CommentList(req) ==
    LET route == "GET /comments"
        gate == AuthGate(req.authorization, now)
    IN  /\ boot = "listening"
        /\ resp' =
             IF ~gate.pass THEN Response(route, gate.status, gate.message, req, <<>>)
             ELSE IF GetDBThrows
             THEN Response(route, 500, "Failed to retrieve comments", req, <<>>)
             ELSE Response(route, 200, "", req, ToArray(comments))
        /\ UNCHANGED <<boot, db, now, users, nextUserId, tasks, nextTaskId,
                       comments, nextCommentId, inflight, pending, deleted>>

(* GET /comments/:id *)
CommentGet(req) ==
    LET route == "GET /comments/:id"
        gate == AuthGate(req.authorization, now)
        comment == FindOne(comments, NewObjectId(req.id))
    IN  /\ boot = "listening"
        /\ resp' =
             IF ~gate.pass THEN Response(route, gate.status, gate.message, req, <<>>)
             ELSE IF ~ObjectIdIsValid(req.id)
             THEN Response(route, 400, "Invalid comment ID format", req, <<>>)
             ELSE IF GetDBThrows
             THEN Response(route, 500, "Failed to retrieve comment", req, <<>>)
             ELSE IF comment = {}
             THEN Response(route, 404, "Comment not found", req, <<>>)
             ELSE Response(route, 200, "", req, CHOOSE d \in comment : TRUE)
        /\ UNCHANGED <<boot, db, now, users, nextUserId, tasks, nextTaskId,
                       comments, nextCommentId, inflight, pending, deleted>>

(* POST /comments: the newComment the handler builds. *)
NewComment(body, createdAt) ==
    [taskId |-> body.taskId, content |-> body.content, createdAt |-> createdAt]

(* POST /comments, up to the await of insertOne. *)
CommentPost(p, req) ==
    LET route == "POST /comments"
        gate == AuthGate(req.authorization, now)
    IN  /\ boot = "listening"
        /\ pending[p] = Idle
        /\ IF ~gate.pass
           THEN /\ resp' = Response(route, gate.status, gate.message, req, <<>>)
                /\ UNCHANGED pending
           ELSE IF MissingFields(req.body, CommentRequired) # {}
           THEN /\ resp' = Response(route, 400, "All fields are required", req, <<>>)
                /\ UNCHANGED pending
           ELSE IF GetDBThrows
           THEN /\ resp' = Response(route, 500, "Failed to create comment", req, <<>>)
                /\ UNCHANGED pending
           ELSE /\ (nextCommentId - FirstObjectId)
                     + Cardinality(Pending("insertComment")) < MaxComments
                /\ pending' = [pending EXCEPT ![p] =
                      [kind |-> "insertComment", req |-> req,
                       doc |-> NewComment(req.body, now)]]
                /\ UNCHANGED resp
        /\ UNCHANGED <<boot, db, now, users, nextUserId, tasks, nextTaskId,
                       comments, nextCommentId, inflight, deleted>>

(* POST /comments: insertOne and the 201. *)
CommentInsertOne(p) ==
    LET r == pending[p]
    IN  /\ r.kind = "insertComment"
        /\ comments' = comments \cup {WithId(r.doc, nextCommentId)}
        /\ nextCommentId' = nextCommentId + 1
        /\ resp' = Response("POST /comments", 201, "Comment created successfully",
                            r.req, nextCommentId)
        /\ pending' = [pending EXCEPT ![p] = Idle]
        /\ UNCHANGED <<boot, db, now, users, nextUserId, tasks, nextTaskId,
                       inflight, deleted>>

(* PUT /comments/:id: the $set the handler builds. *)
UpdatedComment(body) == [taskId |-> body.taskId, content |-> body.content]

(* PUT /comments/:id, up to the await of updateOne. *)
CommentPut(p, req) ==
    LET route == "PUT /comments/:id"
        gate == AuthGate(req.authorization, now)
    IN  /\ boot = "listening"
        /\ pending[p] = Idle
        /\ IF ~gate.pass
           THEN /\ resp' = Response(route, gate.status, gate.message, req, <<>>)
                /\ UNCHANGED pending
           ELSE IF ~ObjectIdIsValid(req.id)
           THEN /\ resp' = Response(route, 400, "Invalid comment ID format", req, <<>>)
                /\ UNCHANGED pending
           ELSE IF MissingFields(req.body, CommentRequired) # {}
           THEN /\ resp' = Response(route, 400, "All fields are required", req, <<>>)
                /\ UNCHANGED pending
           ELSE IF GetDBThrows
           THEN /\ resp' = Response(route, 500, "Failed to update comment", req, <<>>)
                /\ UNCHANGED pending
           ELSE /\ pending' = [pending EXCEPT ![p] =
                      [kind |-> "updateComment", req |-> req,
                       id |-> NewObjectId(req.id),
                       set |-> UpdatedComment(req.body)]]
                /\ UNCHANGED resp
        /\ UNCHANGED <<boot, db, now, users, nextUserId, tasks, nextTaskId,
                       comments, nextCommentId, inflight, deleted>>

(* PUT /comments/:id whose updateOne is an upsert. *)
CommentUpdateOneUpsert(p) ==
    LET r == pending[p]
        route == "PUT /comments/:id"
        matched == FindOne(comments, r.id)
    IN  /\ r.kind = "updateComment"
        /\ comments' = IF matched = {} THEN comments \cup {WithId(r.set, r.id)}
                       ELSE (comments \ matched) \cup {ApplySet(d, r.set) : d \in matched}
        /\ resp' = IF matched = {}
                   THEN Response(route, 404, "Comment not found", r.req, <<>>)
                   ELSE Response(route, 200, "Comment updated successfully", r.req, <<>>)
        /\ pending' = [pending EXCEPT ![p] = Idle]
        /\ UNCHANGED <<boot, db, now, users, nextUserId, tasks, nextTaskId,
                       nextCommentId, inflight, deleted>>

(* PUT /comments/:id: updateOne and the answer by matchedCount. *)
CommentUpdateOne(p) ==
    LET r == pending[p]
        route == "PUT /comments/:id"
        matched == FindOne(comments, r.id)
    IN  /\ r.kind = "updateComment"
        /\ comments' = (comments \ matched) \cup {ApplySet(d, r.set) : d \in matched}
        /\ resp' = IF matched = {}
                   THEN Response(route, 404, "Comment not found", r.req, <<>>)
                   ELSE Response(route, 200, "Comment updated successfully", r.req, <<>>)
        /\ pending' = [pending EXCEPT ![p] = Idle]
        /\ UNCHANGED <<boot, db, now, users, nextUserId, tasks, nextTaskId,
                       nextCommentId, inflight, deleted>>

(* DELETE /comments/:id *)
CommentDelete(req) ==
    LET route == "DELETE /comments/:id"
        gate == AuthGate(req.authorization, now)
        found == FindOne(comments, NewObjectId(req.id))
    IN  /\ boot = "listening"
        /\ IF ~gate.pass
           THEN /\ resp' = Response(route, gate.status, gate.message, req, <<>>)
                /\ UNCHANGED <<comments, deleted>>
           ELSE IF ~ObjectIdIsValid(req.id)
           THEN /\ resp' = Response(route, 400, "Invalid comment ID format", req, <<>>)
                /\ UNCHANGED <<comments, deleted>>
           ELSE IF GetDBThrows
           THEN /\ resp' = Response(route, 500, "Failed to delete comment", req, <<>>)
                /\ UNCHANGED <<comments, deleted>>
           ELSE IF found = {}
           THEN /\ resp' = Response(route, 404, "Comment not found", req, <<>>)
                /\ UNCHANGED <<comments, deleted>>
           ELSE /\ comments' = comments \ found
                /\ deleted' = [deleted EXCEPT !.comments = @ \cup {NewObjectId(req.id)}]
                /\ resp' = Response(route, 200, "Comment deleted successfully", req, <<>>)
        /\ UNCHANGED <<boot, db, now, users, nextUserId, tasks, nextTaskId,
                       nextCommentId, inflight, pending>>

-----------------------------------------------------------------------------

Init ==
    /\ boot = "connecting"
    /\ db = "undefined"
    /\ now = 0
    /\ users = {}
    /\ nextUserId = FirstObjectId
    /\ tasks = {}
    /\ nextTaskId = FirstObjectId
    /\ comments = {}
    /\ nextCommentId = FirstObjectId
    /\ inflight = [s \in Slots |-> Idle]
    /\ pending = [p \in PendingSlots |-> Idle]
    /\ deleted = [tasks |-> {}, comments |-> {}]
    /\ resp = NoResponse

ServerNext == ConnectDBSucceeds \/ ConnectDBFails \/ Tick

AuthNext ==
    \/ \E s \in Slots, body \in AuthBodies : RegisterFindUser(s, body)
    \/ \E s \in Slots : RegisterCreateUser(s)
    \/ \E s \in Slots : RegisterInsertOne(s)
    \/ \E body \in AuthBodies : Login(body)
    \/ Logout

TaskNext ==
    \/ \E req \in ListRequests : TaskList(req)
    \/ \E req \in IdRequests : TaskGet(req)
    \/ \E p \in PendingSlots, req \in TaskPostRequests : TaskPost(p, req)
    \/ \E p \in PendingSlots : TaskInsertOne(p)
    \/ \E p \in PendingSlots, req \in TaskPutRequests : TaskPut(p, req)
    \/ \E p \in PendingSlots : TaskUpdateOne(p)
    \/ \E req \in IdRequests : TaskDelete(req)

CommentNext ==
    \/ \E req \in ListRequests : CommentList(req)
    \/ \E req \in IdRequests : CommentGet(req)
    \/ \E p \in PendingSlots, req \in CommentPostRequests : CommentPost(p, req)
    \/ \E p \in PendingSlots : CommentInsertOne(p)
    \/ \E p \in PendingSlots, req \in CommentPutRequests : CommentPut(p, req)
    \/ \E p \in PendingSlots : CommentUpdateOne(p)
    \/ \E req \in IdRequests : CommentDelete(req)

Next == ServerNext \/ AuthNext \/ TaskNext \/ CommentNext

(* The whole server. *)
Spec == Init /\ [][Next]_vars

(* The credential routes, and the gate in front of GET /tasks. *)
GateNext == \E req \in ListRequests : TaskList(req)
AuthSpec == Init /\ [][ServerNext \/ AuthNext \/ GateNext]_vars

(* The task and comment routes behind the gate, and the credential routes
   of a server nobody has registered with. *)
OpenNext == Logout \/ \E body \in AuthBodies : Login(body)
StoreSpec == Init /\ [][ServerNext \/ TaskNext \/ CommentNext \/ OpenNext]_vars

-----------------------------------------------------------------------------
(* What the properties below read off a step. *)

GatedRoutes ==
    {"GET /tasks", "GET /tasks/:id", "POST /tasks", "PUT /tasks/:id",
     "DELETE /tasks/:id", "GET /comments", "GET /comments/:id",
     "POST /comments", "PUT /comments/:id", "DELETE /comments/:id"}
IdRoutes ==
    {"GET /tasks/:id", "PUT /tasks/:id", "DELETE /tasks/:id",
     "GET /comments/:id", "PUT /comments/:id", "DELETE /comments/:id"}
TaskRoutes ==
    {"GET /tasks", "GET /tasks/:id", "POST /tasks", "PUT /tasks/:id",
     "DELETE /tasks/:id"}
AuthRoutes == {"POST /auth/register", "POST /auth/login", "POST /auth/logout"}

(* The step sends a response. *)
Answers == resp' # resp
(* The step is the store operation a suspended task or comment handler
   was waiting for. *)
Completes == \E p \in PendingSlots : pending[p] # Idle /\ pending'[p] = Idle
(* The response is not the gate's. *)
PassedGate(r) == r.status \notin {401, 403}
(* No collection, no generated _id and no suspended handler changes. *)
StoreUntouched ==
    UNCHANGED <<users, nextUserId, tasks, nextTaskId, comments, nextCommentId,
                pending, deleted>>
(* The collection a route works on. *)
CollectionOf(route) == IF route \in TaskRoutes THEN tasks ELSE comments
NounOf(route) == IF route \in TaskRoutes THEN "task" ELSE "comment"
RequiredOf(route) ==
    CASE route = "POST /tasks" -> TaskPostRequired
      [] route = "PUT /tasks/:id" -> TaskPutRequired
      [] route \in {"POST /comments", "PUT /comments/:id"} -> CommentRequired
      [] OTHER -> {}

-----------------------------------------------------------------------------
(* C1: a token that POST /auth/login issued is accepted by the gate of
   GET /tasks while it is unexpired; the same token with its signature
   altered, or presented once its expiration is reached, is rejected with
   403.  (As the claim states it; the code signs with one secret and
   verifies with another.) *)
C1_LoginTokenAcceptedByGate ==
    [][(/\ resp.route = "POST /auth/login" /\ resp.status = 200
        /\ Answers /\ resp'.route = "GET /tasks")
       => /\ (/\ resp'.req.authorization = BearerHeader(resp.result)
              /\ now < JwtDecode(resp.result).exp)
             => resp'.status = 200
          /\ (\/ resp'.req.authorization = BearerHeader(TamperSignature(resp.result))
              \/ /\ resp'.req.authorization = BearerHeader(resp.result)
                 /\ now >= JwtDecode(resp.result).exp)
             => resp'.status = 403]_vars

(* C2: no two documents of the users collection carry the same username.
   (As the claim states it; two registrations whose lookups both precede
   both inserts break it.) *)
C2_UsernameUnique ==
    \A u \in users, v \in users : u.username = v.username => u = v

(* C3: a registration that arrives for a username already in the users
   collection is answered 400 "Username already exists" by the handler's own
   lookup, goes no further, and adds nothing; and no step ever removes or
   rewrites a user document. *)
C3_DuplicateRegistrationRejected ==
    [][/\ \A s \in Slots :
            (inflight[s] = Idle /\ inflight'[s] # Idle)
            => FindUserByUsername(inflight'[s].req.body.username) = {}
       /\ (/\ Answers /\ resp'.route = "POST /auth/register"
           /\ inflight' = inflight
           /\ FindUserByUsername(resp'.req.body.username) # {})
          => /\ resp'.status = 400
             /\ resp'.message = "Username already exists"
             /\ users' = users
       /\ users \subseteq users']_vars

C3_Witness ==
    /\ resp.route = "POST /auth/register" /\ resp.status = 400
    /\ \E u \in users :
         /\ u.username = resp.req.body.username
         /\ Has(resp.req.body, "password")
         /\ ~BcryptCompare(resp.req.body.password, u.password)

(* C4 as the claim states it: on a gated route a request without the
   Authorization header is answered 401, and one whose header is present
   but carries no token that verifies is answered 403. *)
C4_PresentHeaderRejectedWith403 ==
    [][(Answers /\ ~Completes /\ resp'.route \in GatedRoutes)
       => LET a == resp'.req.authorization
          IN  /\ a = NoHeader => resp'.status = 401
              /\ (/\ a # NoHeader
                  /\ \A i \in 1..Len(a) :
                        JwtVerifyErr(<<a[i]>>, GATE_SECRET, now) # "none")
                 => resp'.status = 403]_vars

(* C4, amended: on a gated route a request from whose Authorization header
   no token can be read (no header, or a header whose piece after its first
   space is missing or empty) is answered 401, and one whose token fails jwt.verify is
   answered 403; either way no collection changes and no handler is left
   suspended at a store operation.  The /auth routes never give the gate's
   answers. *)
C4_GateRejectsBeforeHandler ==
    [][/\ (Answers /\ ~Completes /\ resp'.route \in GatedRoutes)
          => LET token == HeaderToken(resp'.req.authorization)
             IN  /\ token = <<>>
                    => /\ resp'.status = 401
                       /\ resp'.message = "Access token required"
                       /\ StoreUntouched
                 /\ (token # <<>> /\ JwtVerifyErr(token, GATE_SECRET, now) # "none")
                    => /\ resp'.status = 403
                       /\ resp'.message = "Invalid token"
                       /\ StoreUntouched
       /\ (Answers /\ resp'.route \in AuthRoutes)
          => resp'.message \notin {"Access token required", "Invalid token"}]_vars

C4_Witness ==
    /\ resp.route = "DELETE /tasks/:id" /\ resp.status = 401
    /\ resp.req.authorization = <<Bearer>>
    /\ FindOne(tasks, NewObjectId(resp.req.id)) # {}

(* C5: the GET /tasks/:id that follows a 201 of POST /tasks, for the taskId
   that 201 returned, answers 200 with the submitted fields and with
   createdAt equal to updatedAt.  (As the claim states it; the handler reads
   the clock once for createdAt and once more for updatedAt.) *)
C5_CreateThenGet ==
    [][(/\ resp.route = "POST /tasks" /\ resp.status = 201
        /\ Answers /\ resp'.route = "GET /tasks/:id"
        /\ PassedGate(resp') /\ ObjectIdIsValid(resp'.req.id)
        /\ NewObjectId(resp'.req.id) = resp.result)
       => /\ resp'.status = 200
          /\ LET body == resp.req.body
                 task == resp'.result
             IN  /\ \A f \in TaskPostRequired \ {"dueDate"} : task[f] = body[f]
                 /\ task.dueDate = NewDate(body.dueDate)
                 /\ Has(body, "tags") => task.tags = body.tags
                 /\ Has(body, "comments") => task.comments = body.comments
                 /\ task.createdAt = task.updatedAt]_vars

(* C6 as the claim states it: a PUT that passed the gate, with a well-formed
   identifier that matches no document, is answered 404 and changes no
   collection. *)
C6_UpdateOfAbsentIdAlways404 ==
    [][(/\ Answers /\ resp'.route \in {"PUT /tasks/:id", "PUT /comments/:id"}
        /\ PassedGate(resp') /\ ObjectIdIsValid(resp'.req.id)
        /\ FindOne(CollectionOf(resp'.route), NewObjectId(resp'.req.id)) = {})
       => /\ resp'.status = 404
          /\ tasks' = tasks /\ comments' = comments]_vars

(* C6, amended: a PUT that passed the gate, with a well-formed identifier
   that matches no document when its updateOne runs, is answered 404 when
   its body carries every required field and 400 when it does not; either
   way no document is created or changed. *)
C6_UpdateOfAbsentId ==
    [][(/\ Answers /\ resp'.route \in {"PUT /tasks/:id", "PUT /comments/:id"}
        /\ PassedGate(resp') /\ ObjectIdIsValid(resp'.req.id)
        /\ FindOne(CollectionOf(resp'.route), NewObjectId(resp'.req.id)) = {})
       => /\ resp'.status =
               IF MissingFields(resp'.req.body, RequiredOf(resp'.route)) = {}
               THEN 404 ELSE 400
          /\ tasks' = tasks /\ comments' = comments]_vars

C6_Witness ==
    /\ resp.route = "PUT /tasks/:id" /\ resp.status = 404
    /\ tasks # {}
    /\ FindOne(tasks, NewObjectId(resp.req.id)) = {}

(* C7 as the claim states it: the updateOne of a PUT /tasks/:id that
   matches a task leaves it with an updatedAt strictly later than before and
   with the same createdAt. *)
C7_UpdatedAtStrictlyLater ==
    [][\A p \in PendingSlots :
         (pending[p].kind = "updateTask" /\ pending'[p] = Idle)
         => \A d \in FindOne(tasks, pending[p].id) :
              \E e \in FindOne(tasks', d._id) :
                 /\ e.updatedAt > d.updatedAt
                 /\ e.createdAt = d.createdAt]_vars

(* C7, amended: a PUT /tasks/:id stamps its update with the clock value it
   reads when it builds the update, before updateOne; the updateOne that
   matches a task is answered 200, leaves createdAt as it was and sets
   updatedAt to that stamp, which can equal the previous updatedAt. *)
C7_UpdatedAtIsHandlerStamp ==
    [][\A p \in PendingSlots :
         /\ (pending[p] = Idle /\ pending'[p].kind = "updateTask")
            => pending'[p].set.updatedAt = now
         /\ (pending[p].kind = "updateTask" /\ pending'[p] = Idle)
            => \A d \in FindOne(tasks, pending[p].id) :
                 /\ resp'.status = 200
                 /\ \E e \in FindOne(tasks', d._id) :
                      /\ e.createdAt = d.createdAt
                      /\ e.updatedAt = pending[p].set.updatedAt]_vars

C7_Witness ==
    /\ resp.route = "PUT /tasks/:id" /\ resp.status = 200
    /\ \E d \in FindOne(tasks, NewObjectId(resp.req.id)) :
         /\ d.title = resp.req.body.title
         /\ d.createdBy = TaskBodyA.createdBy
         /\ d.createdBy # TaskBodyB.createdBy
         /\ d.updatedAt = d.createdAt

(* C8: an _id whose DELETE was answered 200 is in its collection no more,
   and a later DELETE of it that passes the gate is answered 404 and leaves
   both collections as they are. *)
C8_SecondDeleteNotFound ==
    /\ [](/\ \A id \in deleted.tasks : FindOne(tasks, id) = {}
          /\ \A id \in deleted.comments : FindOne(comments, id) = {})
    /\ [][(/\ Answers /\ resp'.route \in {"DELETE /tasks/:id", "DELETE /comments/:id"}
           /\ PassedGate(resp') /\ ObjectIdIsValid(resp'.req.id)
           /\ NewObjectId(resp'.req.id) \in deleted[NounOf(resp'.route) \o "s"])
          => /\ resp'.status = 404
             /\ tasks' = tasks /\ comments' = comments]_vars

C8_Witness ==
    /\ resp.route = "DELETE /tasks/:id" /\ resp.status = 404
    /\ NewObjectId(resp.req.id) \in deleted.tasks

(* C9: a task or comment request that passed the gate and whose identifier
   is not a valid ObjectId string is answered 400 "Invalid task ID format"
   or "Invalid comment ID format", whatever its body; a POST or PUT with a
   required field missing (and, for PUT, a valid identifier) is answered 400
   "All fields are required"; in both cases no collection changes and no
   store operation is left pending. *)
C9_ValidationBeforeStore ==
    [][(Answers /\ ~Completes /\ resp'.route \in GatedRoutes /\ PassedGate(resp'))
       => LET route == resp'.route
              badId == route \in IdRoutes /\ ~ObjectIdIsValid(resp'.req.id)
              missing == MissingFields(resp'.req.body, RequiredOf(route))
          IN  /\ badId
                 => /\ resp'.status = 400
                    /\ resp'.message = "Invalid " \o NounOf(route) \o " ID format"
                    /\ StoreUntouched
              /\ (~badId /\ missing # {})
                 => /\ resp'.status = 400
                    /\ resp'.message = "All fields are required"
                    /\ StoreUntouched]_vars

C9_Witness ==
    /\ resp.route = "PUT /tasks/:id" /\ resp.status = 400
    /\ resp.message = "Invalid task ID format"
    /\ MissingFields(resp.req.body, TaskPutRequired) # {}
    /\ tasks # {}

(* C10: POST /auth/login answers 200 with a token exactly when some user
   document has the given username and a hash the given password matches;
   an unknown username, or a given password that matches no such hash, is
   answered 401 "Invalid credentials"; and login changes no user document.
   (As the claim states it; after the race of C2 two documents share a
   username and findOne returns only the first.) *)
C10_LoginIffCredentialsMatch ==
    [][(Answers /\ resp'.route = "POST /auth/login")
       => LET body == resp'.req.body
              known == {u \in users : u.username = body.username}
              matching == {u \in known : /\ Has(body, "password")
                                         /\ BcryptCompare(body.password, u.password)}
          IN  /\ resp'.status = 200 <=> matching # {}
              /\ (known = {} \/ (Has(body, "password") /\ matching = {}))
                 => /\ resp'.status = 401
                    /\ resp'.message = "Invalid credentials"
              /\ users' = users]_vars

(* C11: POST /auth/logout is answered 200 and changes nothing but the last
   response: the collections, the store handle, the clock and the suspended
   handlers stay as they are, and the gate's verdict on every header is the
   same after the logout as before it.  A GET /tasks that follows a logout
   is rejected exactly when its header yields no token (401) or a token that
   jwt.verify rejects at that clock value (403): a token that verifies and
   has not reached its exp passes. *)
C11_LogoutRevokesNothing ==
    [][/\ (Answers /\ resp'.route = "POST /auth/logout")
          => /\ resp'.status = 200
             /\ UNCHANGED <<boot, db, now, users, nextUserId, tasks, nextTaskId,
                            comments, nextCommentId, inflight, pending, deleted>>
             /\ \A a \in ListAuths : AuthGate(a, now)' = AuthGate(a, now)
       /\ (/\ resp.route = "POST /auth/logout"
           /\ Answers /\ resp'.route = "GET /tasks")
          => LET token == HeaderToken(resp'.req.authorization)
             IN  /\ resp'.status = 401 <=> token = <<>>
                 /\ resp'.status = 403
                    <=> (token # <<>> /\ JwtVerifyErr(token, GATE_SECRET, now) # "none")
                 /\ (token # <<>> /\ JwtVerifyErr(token, GATE_SECRET, now) = "none")
                    => resp'.status = 200]_vars

C11_Witness ==
    /\ resp.route = "POST /auth/logout" /\ resp.status = 200
    /\ IssuedTokens # {}
    /\ AuthGate(BearerHeader(ShortToken), now).pass

(* C12: the store handle is set once, by the connectDB() of startup, and
   never again; the server listens only with the handle set, and a server
   whose connectDB() failed never listens; so no request is taken, no
   handler is suspended and no response is sent while the handle is unset,
   and no handler answers the 500 of a getDB() that throws. *)
C12_ServesOnlyWithStoreHandle ==
    /\ [](/\ boot = "listening" => ~GetDBThrows
          /\ boot # "listening"
             => /\ resp = NoResponse
                /\ \A s \in Slots : inflight[s] = Idle
                /\ \A p \in PendingSlots : pending[p] = Idle
          /\ resp.status # 500)
    /\ [][/\ db' # db => (db = "undefined" /\ boot = "connecting")
          /\ boot = "failed" => boot' = "failed"
          /\ boot = "listening" => boot' = "listening"
          /\ (Answers \/ inflight' # inflight \/ pending' # pending)
             => (boot = "listening" /\ ~GetDBThrows)]_vars

C12_Witness ==
    /\ boot = "listening" /\ db = "CSE341pt2"
    /\ resp.route = "GET /tasks/:id" /\ resp.status = 200
    /\ \E p \in PendingSlots : pending[p] # Idle

(* C13: a registration that is rejected while a user document with its
   username exists is answered 400, whichever lookup found the document:
   the handler's findUserByUsername or the findOne of createUser.  (As the
   claim states it; the handler's catch answers the throw of createUser with
   500.) *)
C13_DuplicateAlways400 ==
    [][(/\ Answers /\ resp'.route = "POST /auth/register"
        /\ resp'.status # 201
        /\ FindUserByUsername(resp'.req.body.username) # {})
       => resp'.status = 400]_vars

(* The store operations a suspended registration has issued so far: the
   findOne of findUserByUsername before pc "createUser", and the findOne of
   createUser as well before pc "insertOne". *)
StoreOperations(r) ==
    CASE r.pc = "createUser" -> 1
      [] r.pc = "insertOne" -> 2

(* C14: a handler issues one store operation for its request and ends it
   with one response: a registration that is suspended has issued no more
   than one store operation and the one it is about to issue is its first
   (none was issued before); it sends no response while it stays suspended;
   the step that ends it answers its request; and a 201 comes with the
   insertOne of that step.  (As the claim states it; a registration runs
   findOne, findOne and insertOne.) *)
C14_OneStoreOperationOneOutcome ==
    [][\A s \in Slots :
         /\ inflight'[s] # Idle => StoreOperations(inflight'[s]) <= 1
         /\ (inflight[s] # Idle /\ inflight'[s] # inflight[s])
            => StoreOperations(inflight[s]) = 0
         /\ (inflight'[s] # Idle /\ inflight'[s] # inflight[s]) => resp' = resp
         /\ (inflight[s] # Idle /\ inflight'[s] = Idle)
            => /\ resp'.route = "POST /auth/register"
               /\ resp'.req = inflight[s].req
               /\ (resp'.status = 201) <=> (users' # users)]_vars

(* C15: the updateOne of a PUT that matches a document leaves it with every
   field of the update as supplied (dueDate as the Date built from it) and
   with an updatedAt read from the clock during the request, for a task and
   for a comment alike.  (As the claim states it; the $set of
   PUT /comments/:id has no updatedAt, and no comment ever carries one.) *)
C15_UpdateStampsUpdatedAt ==
    [][\A p \in PendingSlots :
         (pending[p].kind \in {"updateTask", "updateComment"} /\ pending'[p] = Idle)
         => LET coll == IF pending[p].kind = "updateTask" THEN tasks ELSE comments
                after == IF pending[p].kind = "updateTask" THEN tasks' ELSE comments'
                body == pending[p].req.body
                required == IF pending[p].kind = "updateTask"
                            THEN TaskPutRequired ELSE CommentRequired
            IN  \A d \in FindOne(coll, pending[p].id) :
                  /\ resp'.status = 200
                  /\ \E e \in FindOne(after, d._id) :
                       /\ \A f \in required \ {"dueDate"} : e[f] = body[f]
                       /\ "dueDate" \in required => e.dueDate = NewDate(body.dueDate)
                       /\ Has(e, "updatedAt")
                       /\ e.updatedAt \in 0..now]_vars

(* C16: however PUT, DELETE and POST requests on tasks and comments
   interleave, an _id whose DELETE was answered 200 never comes back into
   its collection (an insertOne gives a fresh _id), and the updateOne of a
   PUT is answered 200 exactly when a document with its _id is in the
   collection at that step and 404 otherwise, in which case it adds no
   document. *)
C16_UpdateNeverRecreates ==
    /\ [](/\ \A d \in tasks : d._id \notin deleted.tasks
          /\ \A d \in comments : d._id \notin deleted.comments)
    /\ [][\A p \in PendingSlots :
            (pending[p].kind \in {"updateTask", "updateComment"} /\ pending'[p] = Idle)
            => LET coll == IF pending[p].kind = "updateTask" THEN tasks ELSE comments
                   after == IF pending[p].kind = "updateTask" THEN tasks' ELSE comments'
                   matched == FindOne(coll, pending[p].id)
               IN  /\ resp'.req = pending[p].req
                   /\ resp'.status = IF matched # {} THEN 200 ELSE 404
                   /\ {d._id : d \in after} = {d._id : d \in coll}
                   /\ matched = {} => after = coll]_vars

C16_Witness ==
    /\ resp.route = "PUT /comments/:id" /\ resp.status = 404
    /\ NewObjectId(resp.req.id) \in deleted.comments
    /\ comments = {}
    /\ nextCommentId > FirstObjectId

====
